---- MODULE Spec2Model ----
(***************************************************************************)
(* Model of the AI Tree Identifier single-page application:                *)
(*   - App (React component): selectedFile, treeData, isLoading, error,    *)
(*     the memoised previewUrl, handleIdentify, handleReset, the render    *)
(*     conditions of the controls and of the display region;               *)
(*   - services/geminiService.ts: fileToGenerativePart and identifyTree.   *)
(* Every browser event (file input change, click, FileReader loadend,      *)
(* settlement of the generateContent promise) is one action: the handler   *)
(* and the microtasks it schedules run to completion before the next       *)
(* event, and React re-renders after it.                                   *)
(***************************************************************************)
EXTENDS Integers, Sequences, FiniteSets, TLC

\* ---------------------------------------------------------------- bounds
MaxFiles == 2       \* File objects the user picks during a session
MaxCalls == 3       \* invocations of handleIdentify during a session

\* ------------------------------------------------- nullable values
\* null / undefined is the empty tuple, a present value v is <<v>>
Null == <<>>
Some(v) == <<v>>
Val(o) == o[1]

\* ------------------------------------------------- JavaScript values
\* A value carries its type: a string, an object (a function from its
\* property names to values), an array (a sequence of values), null or
\* undefined.
Str(s) == [type |-> "string", value |-> s]
Obj(f) == [type |-> "object", value |-> f]
Arr(q) == [type |-> "array", value |-> q]
JsNull == [type |-> "null", value |-> <<>>]
Undefined == [type |-> "undefined", value |-> <<>>]

IsNullish(v) == v.type \in {"null", "undefined"}

\* truthiness: null, undefined and the empty string are falsy
IsTruthy(v) == ~IsNullish(v) /\ ~(v.type = "string" /\ v.value = "")

\* the argument of a state setter as the state holds it: null and undefined
\* leave the state empty
Stored(v) == IF IsNullish(v) THEN Null ELSE Some(v)

\* ------------------------------------------------- strings as token lists
\* A text is a sequence of tokens; a structural character is a token of its
\* own, every other token is a run of ordinary characters.
Comma == ","

\* String.prototype.split(sep): the segments between the separators
RECURSIVE SplitFrom(_, _, _, _)
SplitFrom(s, sep, i, cur) ==
    IF i > Len(s) THEN <<cur>>
    ELSE IF s[i] = sep THEN <<cur>> \o SplitFrom(s, sep, i + 1, <<>>)
    ELSE SplitFrom(s, sep, i + 1, Append(cur, s[i]))
Split(s, sep) == SplitFrom(s, sep, 1, <<>>)

Whitespace == {" ", "\n"}

\* String.prototype.trim
RECURSIVE TrimStart(_)
TrimStart(s) ==
    IF s # <<>> /\ Head(s) \in Whitespace THEN TrimStart(Tail(s)) ELSE s
RECURSIVE TrimEnd(_)
TrimEnd(s) ==
    IF s # <<>> /\ s[Len(s)] \in Whitespace
    THEN TrimEnd(SubSeq(s, 1, Len(s) - 1)) ELSE s
Trim(s) == TrimEnd(TrimStart(s))

\* ------------------------------------------------- JSON.parse
\* Grammar: value ::= string | null | { members } | [ elements ], with
\* optional whitespace between tokens.  A token that is neither structural,
\* nor whitespace, nor the literal null is a string literal (its content).
Structural == {"{", "}", "[", "]", ",", ":"}
Literals == {"null"}
IsStringTok(t) == t \notin Structural /\ t \notin Whitespace /\ t \notin Literals

\* The message of the SyntaxError is the engine's.  The engines modelled are
\* V8 as in node 20 (position only) and V8 as in node 22 and Chrome 147
\* (position, line and column); the page runs on one of them.
Engines == {"V8 11", "V8 12"}
VARIABLE jsEngine

\* the characters a token stands for: a string literal carries its quotes
TokText(t) ==
    IF t \in Structural \cup Whitespace \cup Literals THEN t ELSE "\"" \o t \o "\""
RECURSIVE SourceText(_)
SourceText(s) == IF s = <<>> THEN "" ELSE TokText(Head(s)) \o SourceText(Tail(s))

\* the character offset (from 0) of token i; of the end of input for Len(s) + 1
Position(s, i) == Len(SourceText(SubSeq(s, 1, i - 1)))

\* line and column (from 1) of token i
LineBreaksBefore(s, i) == {k \in 1..(i - 1) : s[k] = "\n"}
LineOf(s, i) == 1 + Cardinality(LineBreaksBefore(s, i))
ColumnOf(s, i) ==
    LET breaks == LineBreaksBefore(s, i)
        last == CHOOSE k \in breaks : \A m \in breaks : m <= k
    IN IF breaks = {} THEN 1 + Position(s, i)
       ELSE Position(s, i) - Position(s, last)

SyntaxErrorEnd == "Unexpected end of JSON input"
ExpectedPropNameOrRBrace == "Expected property name or '}' in JSON"
ExpectedDoubleQuotedPropertyName == "Expected double-quoted property name in JSON"
ExpectedColonAfterPropertyName == "Expected ':' after property name in JSON"
ExpectedCommaOrRBrace == "Expected ',' or '}' after property value in JSON"
ExpectedCommaOrRBrack == "Expected ',' or ']' after array element in JSON"
UnexpectedNonWhiteSpaceCharacter == "Unexpected non-whitespace character after JSON"

\* characters of context the engine quotes on each side of an unexpected token
MaxContextCharacters == 10

\* a message that reports where the parser stopped (token i, or end of input)
AtPosition(template, s, i) ==
    template \o " at position " \o ToString(Position(s, i)) \o
    (IF jsEngine = "V8 12"
     THEN " (line " \o ToString(LineOf(s, i)) \o " column " \o ToString(ColumnOf(s, i)) \o ")"
     ELSE "")

UnexpectedString == "Unexpected string in JSON"

\* the message for a token no rule expects: the end of input, a string
\* literal, or the character the token starts with and the source text
\* around it
UnexpectedToken(s, i) ==
    IF i > Len(s) THEN SyntaxErrorEnd
    ELSE IF IsStringTok(s[i]) THEN AtPosition(UnexpectedString, s, i)
    ELSE LET src == SourceText(s)
             n == Len(src)
             pos == Position(s, i)
             head == "Unexpected token '" \o SubSeq(TokText(s[i]), 1, 1) \o "', "
         IN IF n < 2 * MaxContextCharacters + 1
            THEN head \o "\"" \o src \o "\" is not valid JSON"
            ELSE IF pos < MaxContextCharacters
            THEN head \o "\"" \o SubSeq(src, 1, pos + MaxContextCharacters)
                      \o "\"... is not valid JSON"
            ELSE IF pos < n - MaxContextCharacters
            THEN head \o "...\"" \o SubSeq(src, pos - MaxContextCharacters + 1,
                                           pos + MaxContextCharacters)
                      \o "\"... is not valid JSON"
            ELSE head \o "...\"" \o SubSeq(src, pos - MaxContextCharacters + 1, n)
                      \o "\" is not valid JSON"

RECURSIVE SkipWs(_, _)
SkipWs(s, i) == IF i <= Len(s) /\ s[i] \in Whitespace THEN SkipWs(s, i + 1) ELSE i

Fail(msg) == [ok |-> FALSE, message |-> msg]
Ok(v, n) == [ok |-> TRUE, value |-> v, next |-> n]

RECURSIVE ParseValue(_, _), ParseElements(_, _, _), ParseMembers(_, _, _)
\* elements after "[" (or after a comma): acc is the array so far
ParseElements(s, i0, acc) ==
    LET r == ParseValue(s, i0) IN
    IF ~r.ok THEN r
    ELSE LET j == SkipWs(s, r.next) IN
         IF j <= Len(s) /\ s[j] = "," THEN ParseElements(s, j + 1, Append(acc, r.value))
         ELSE IF j <= Len(s) /\ s[j] = "]" THEN Ok(Arr(Append(acc, r.value)), j + 1)
         ELSE Fail(AtPosition(ExpectedCommaOrRBrack, s, j))
\* members after "{" (or after a comma): acc is the object so far, empty
\* for the first member. The older engine names the missing colon only
\* after the first property name of an object; after a later one it
\* reports the token it met
ParseMembers(s, i0, acc) ==
    LET i == SkipWs(s, i0) IN
    IF i > Len(s) \/ ~IsStringTok(s[i])
    THEN Fail(AtPosition(IF acc = <<>> THEN ExpectedPropNameOrRBrace
                         ELSE ExpectedDoubleQuotedPropertyName, s, i))
    ELSE LET c == SkipWs(s, i + 1) IN
         IF c > Len(s) \/ s[c] # ":"
         THEN Fail(IF jsEngine = "V8 11" /\ acc # <<>>
                   THEN UnexpectedToken(s, c)
                   ELSE AtPosition(ExpectedColonAfterPropertyName, s, c))
         ELSE LET r == ParseValue(s, c + 1) IN
              IF ~r.ok THEN r
              ELSE LET j == SkipWs(s, r.next)
                       obj == (s[i] :> r.value) @@ acc
                   IN IF j <= Len(s) /\ s[j] = "," THEN ParseMembers(s, j + 1, obj)
                      ELSE IF j <= Len(s) /\ s[j] = "}" THEN Ok(Obj(obj), j + 1)
                      ELSE Fail(AtPosition(ExpectedCommaOrRBrace, s, j))
ParseValue(s, i0) ==
    LET i == SkipWs(s, i0) IN
    IF i > Len(s) THEN Fail(UnexpectedToken(s, i))
    ELSE IF IsStringTok(s[i]) THEN Ok(Str(s[i]), i + 1)
    ELSE IF s[i] \in Literals THEN Ok(JsNull, i + 1)
    ELSE IF s[i] = "{" THEN
        LET j == SkipWs(s, i + 1) IN
        IF j <= Len(s) /\ s[j] = "}" THEN Ok(Obj(<<>>), j + 1)
        ELSE ParseMembers(s, i + 1, <<>>)
    ELSE IF s[i] = "[" THEN
        LET j == SkipWs(s, i + 1) IN
        IF j <= Len(s) /\ s[j] = "]" THEN Ok(Arr(<<>>), j + 1)
        ELSE ParseElements(s, i + 1, <<>>)
    ELSE Fail(UnexpectedToken(s, i))

\* JSON.parse(text): the value, or a SyntaxError
JSONParse(s) ==
    LET r == ParseValue(s, 1) IN
    IF ~r.ok THEN r
    ELSE IF SkipWs(s, r.next) <= Len(s)
    THEN Fail(AtPosition(UnexpectedNonWhiteSpaceCharacter, s, SkipWs(s, r.next)))
    ELSE r

\* ------------------------------------------------- environment inputs
\* image files the user can pick in the file dialog (accept: png, jpeg)
PickableFiles ==
    { [name |-> "oak.png", type |-> "image/png",  payload |-> "iVBORw0KGgo="],
      [name |-> "elm.jpg", type |-> "image/jpeg", payload |-> "/9j/4AAQSkZJRg=="] }

\* FileReader.readAsDataURL: reader.result at loadend, a data URL when the
\* read succeeded and null when it failed
ReadAsDataURL(file, readOk) ==
    IF readOk THEN Some(<<"data:", file.type, ";base64", Comma, file.payload>>)
    ELSE Null

\* thrown values: an Error with its message, or any other value
Err(m) == [instanceofError |-> TRUE, message |-> m]
NonErr(v) == [instanceofError |-> FALSE, value |-> v]

\* response texts of the remote model
OakText ==
    << "{", "commonName", ":", "Oak", ",", "scientificName", ":", "Quercus robur", ",",
       "description", ":", "A large deciduous tree.", ",",
       "careTips", ":", "[", "Water weekly", ",", "Full sun", "]", "}", "\n" >>
ElmText ==
    << " ", "{", "commonName", ":", "Elm", ",", "scientificName", ":", "Ulmus minor", ",",
       " ", "description", ":", "A tall shade tree.", "}" >>
TruncatedText == << "{", "commonName", ":", "Oak", "," >>
\* well-formed JSON that does not follow the response schema
EmptyObjectText == << "{", "}" >>
NullText == << "null" >>

\* the ways the generateContent promise settles
Resolve(text) == [kind |-> "resolve", text |-> text]
Reject(reason) == [kind |-> "reject", reason |-> reason]
Settlements ==
    { Resolve(Some(OakText)), Resolve(Some(ElmText)), Resolve(Some(TruncatedText)),
      Resolve(Some(EmptyObjectText)), Resolve(Some(NullText)),
      Resolve(Null),
      Reject(Err("network down")), Reject(Err("")), Reject(NonErr(Str("aborted"))) }

\* ------------------------------------------------- services/geminiService.ts
Prompt == "Identify the tree in this image."
ModelName == "gemini-2.5-flash"
TrimOfUndefined == "Cannot read properties of undefined (reading 'trim')"
ErrorTemplate == "Failed to identify the tree. The model responded with an error: "
UnknownErrorMessage == "An unknown error occurred while identifying the tree. Please try again."

\* completion of a function body
Return(v) == [kind |-> "return", value |-> v]
Throw(e) == [kind |-> "throw", error |-> e]

\* fileToGenerativePart once the reader's loadend fired with a result: the
\* base64 segment after the comma and the file's type
fileToGenerativePart(file, result) ==
    [inlineData |-> [data |-> Split(result, Comma)[2], mimeType |-> file.type]]

\* the request identifyTree passes to ai.models.generateContent
GenerateContentRequest(imagePart) ==
    [model |-> ModelName, parts |-> <<imagePart, [text |-> Prompt]>>,
     responseMimeType |-> "application/json"]

\* the try block of identifyTree from the settlement of generateContent on
TryBody(settle) ==
    IF settle.kind = "reject" THEN Throw(settle.reason)
    ELSE IF settle.text = Null THEN Throw(Err(TrimOfUndefined))
    ELSE LET data == JSONParse(Trim(Val(settle.text))) IN
         IF data.ok THEN Return(data.value) ELSE Throw(Err(data.message))

\* a catch block that drops the caught message
CatchBlock_Generic(error) == Throw(Err(UnknownErrorMessage))

\* the catch block of identifyTree
CatchBlock(error) ==
    IF error.instanceofError THEN Throw(Err(ErrorTemplate \o error.message))
    ELSE Throw(Err(UnknownErrorMessage))

\* identifyTree from the settlement of generateContent to its own settlement
identifyTree(settle) ==
    LET t == TryBody(settle) IN
    IF t.kind = "throw" THEN CatchBlock(t.error) ELSE t

\* ------------------------------------------------- App state
VARIABLES
    selectedFile,   \* useState<File | null>
    treeData,       \* useState<TreeData | null>
    isLoading,      \* useState<boolean>
    error,          \* useState<string | null>
    previewUrl,     \* useMemo: index into objectUrls, or null
    objectUrls,     \* URL.createObjectURL / revokeObjectURL registry
    calls,          \* invocations of handleIdentify that passed the guard
    filesPicked,    \* number of File objects created by the file input
    lastOp          \* the event handled last

\* jsEngine, declared above: the engine the page runs on

vars == <<selectedFile, treeData, isLoading, error, previewUrl, objectUrls,
          calls, filesPicked, lastOp, jsEngine>>

UnexpectedErrorMessage == "An unexpected error occurred."

\* x || y
OrElse(x, y) == IF IsTruthy(x) THEN x ELSE y

\* the message of the TypeError for reading a property of null or undefined
CannotReadProperties(type, property) ==
    "Cannot read properties of " \o type \o " (reading '" \o property \o "')"

\* err.message of the caught value: the message of an Error; a TypeError
\* when the value is null or undefined; the property of an object that has
\* one; undefined for every other value
MessageOf(err) ==
    IF err.instanceofError THEN Return(Str(err.message))
    ELSE IF IsNullish(err.value)
    THEN Throw(Err(CannotReadProperties(err.value.type, "message")))
    ELSE IF err.value.type = "object" /\ "message" \in DOMAIN err.value.value
    THEN Return(err.value.value.message)
    ELSE Return(Undefined)

\* a string is held in `error` as it is, any other value with its type
Plain(v) == IF v.type = "string" THEN v.value ELSE v

\* the argument of setError in the catch of handleIdentify:
\* err.message || 'An unexpected error occurred.'; there is none when
\* err.message throws
CaughtMessage(err) ==
    LET m == MessageOf(err) IN
    IF m.kind = "throw" THEN m
    ELSE Return(Plain(OrElse(m.value, Str(UnexpectedErrorMessage))))

\* truthiness of a state variable: empty (null) is falsy, and so is the
\* empty string, held plain in `error` and with its type in `treeData`.
\* Values of different shapes do not compare in TLC, so the empty string is
\* recognised by its printed form
Truthy(o) == o # Null /\ ToString(Val(o)) \notin {ToString(""), ToString(Str(""))}

\* a disabled attribute that ignores the loading flag
IdentifyDisabled_IgnoresLoading == ~Truthy(selectedFile)

\* render: the attributes and conditions of the JSX
IdentifyDisabled == ~Truthy(selectedFile) \/ isLoading
ResetShown == Truthy(selectedFile) \/ Truthy(treeData) \/ Truthy(error)
ShowSpinner == isLoading
ShowError == Truthy(error)
ShowResult == Truthy(treeData)
ShowPrompt ==
    ~isLoading /\ ~Truthy(error) /\ ~Truthy(treeData) /\ ~Truthy(selectedFile)

\* a call that has started and whose promise has not settled
Outstanding(c) == calls[c].pc \in {"reading", "requesting", "hung"}
OutstandingCalls == {c \in DOMAIN calls : Outstanding(c)}

Init ==
    /\ selectedFile = Null
    /\ treeData = Null
    /\ isLoading = FALSE
    /\ error = Null
    /\ previewUrl = Null
    /\ objectUrls = <<>>
    /\ calls = <<>>
    /\ filesPicked = 0
    /\ lastOp = [op |-> "init"]
    /\ jsEngine \in Engines

\* useMemo(() => selectedFile ? URL.createObjectURL(selectedFile) : null,
\* [selectedFile]) on the render that follows setSelectedFile(file)
MemoPreviewUrl(file, urls) ==
    IF ~Truthy(file) THEN [previewUrl |-> Null, objectUrls |-> urls]
    ELSE [previewUrl |-> Some(Len(urls) + 1),
          objectUrls |-> Append(urls, [file |-> Val(file).id, revoked |-> FALSE])]

\* ImageUploader.handleFileChange -> onImageSelect = setSelectedFile
onImageSelect(file) ==
    LET memo == MemoPreviewUrl(Some(file), objectUrls) IN
    /\ selectedFile' = Some(file)
    /\ previewUrl' = memo.previewUrl
    /\ objectUrls' = memo.objectUrls
    /\ UNCHANGED <<treeData, isLoading, error, calls>>

\* change event of the file input: files[0] is a new File, or undefined when
\* the list is empty
handleFileChange ==
    /\ filesPicked < MaxFiles
    /\ \E picked \in {Some(f) : f \in PickableFiles} \cup {Null} :
        IF picked # Null
        THEN /\ onImageSelect([id |-> filesPicked + 1] @@ Val(picked))
             /\ filesPicked' = filesPicked + 1
             /\ lastOp' = [op |-> "select", file |-> filesPicked + 1]
             /\ UNCHANGED jsEngine
        ELSE /\ UNCHANGED <<selectedFile, treeData, isLoading, error, previewUrl,
                            objectUrls, calls, filesPicked>>
             /\ lastOp' = [op |-> "select-none"]
             /\ UNCHANGED jsEngine

\* a handler that forgets setError(null)
handleIdentify_KeepsError ==
    IF ~Truthy(selectedFile)
    THEN /\ UNCHANGED <<selectedFile, treeData, isLoading, error, previewUrl,
                        objectUrls, calls, filesPicked>>
         /\ lastOp' = [op |-> "identify-nofile"]
         /\ UNCHANGED jsEngine
    ELSE /\ isLoading' = TRUE
         /\ treeData' = Null
         /\ calls' = Append(calls, [file |-> Val(selectedFile), pc |-> "reading",
                                    requests |-> <<>>, settlement |-> Null,
                                    caught |-> Null, completion |-> Null])
         /\ lastOp' = [op |-> "identify", call |-> Len(calls) + 1]
         /\ UNCHANGED jsEngine
         /\ UNCHANGED <<selectedFile, error, previewUrl, objectUrls, filesPicked>>

\* click on the primary button: handleIdentify up to its first await, with
\* identifyTree and fileToGenerativePart up to reader.readAsDataURL(file)
handleIdentify ==
    IF ~Truthy(selectedFile)
    THEN /\ UNCHANGED <<selectedFile, treeData, isLoading, error, previewUrl,
                        objectUrls, calls, filesPicked>>
         /\ lastOp' = [op |-> "identify-nofile"]
         /\ UNCHANGED jsEngine
    ELSE /\ isLoading' = TRUE
         /\ error' = Null
         /\ treeData' = Null
         /\ calls' = Append(calls, [file |-> Val(selectedFile), pc |-> "reading",
                                    requests |-> <<>>, settlement |-> Null,
                                    caught |-> Null, completion |-> Null])
         /\ lastOp' = [op |-> "identify", call |-> Len(calls) + 1]
         /\ UNCHANGED jsEngine
         /\ UNCHANGED <<selectedFile, previewUrl, objectUrls, filesPicked>>

ClickIdentify ==
    /\ ~IdentifyDisabled
    /\ Len(calls) < MaxCalls
    /\ handleIdentify

\* reader.onloadend of call c: resolve(reader.result.split(',')[1]); then
\* identifyTree resumes and issues the request.  With a null reader.result
\* the handler throws before resolve and the promise stays pending.
ReaderLoadEnd(c, readOk) ==
    LET result == ReadAsDataURL(calls[c].file, readOk) IN
    /\ calls[c].pc = "reading"
    /\ IF result # Null
       THEN calls' = [calls EXCEPT
                ![c].pc = "requesting",
                ![c].requests = Append(@, GenerateContentRequest(
                                    fileToGenerativePart(calls[c].file, Val(result))))]
       ELSE calls' = [calls EXCEPT ![c].pc = "hung"]
    /\ lastOp' = [op |-> IF readOk THEN "read" ELSE "read-failed", call |-> c]
    /\ UNCHANGED jsEngine
    /\ UNCHANGED <<selectedFile, treeData, isLoading, error, previewUrl,
                   objectUrls, filesPicked>>

FileRead == \E c \in DOMAIN calls : \E readOk \in BOOLEAN : ReaderLoadEnd(c, readOk)

\* handleIdentify after `await identifyTree(selectedFile)` settled with
\* completion: setTreeData(result), or setError(...) in the catch, and
\* setIsLoading(false) in the finally. When the catch itself throws,
\* setError is not reached, the finally still runs, and the exception
\* leaves the handler with nothing waiting for it
handleIdentifyResume(completion) ==
    /\ IF completion.kind = "return"
       THEN /\ treeData' = Stored(completion.value)
            /\ error' = error
       ELSE LET m == CaughtMessage(completion.error) IN
            /\ error' = IF m.kind = "return" THEN Some(m.value) ELSE error
            /\ treeData' = treeData
    /\ isLoading' = FALSE

\* the generateContent promise of call c settles: the rest of identifyTree,
\* then the try / catch / finally of handleIdentify
Settle(c, settle) ==
    LET t == TryBody(settle)
        completion == identifyTree(settle)
    IN
    /\ calls[c].pc = "requesting"
    /\ calls' = [calls EXCEPT
            ![c].pc = "settled",
            ![c].settlement = Some(settle),
            ![c].caught = IF t.kind = "throw" THEN Some(t.error) ELSE Null,
            ![c].completion = Some(completion)]
    /\ handleIdentifyResume(completion)
    /\ lastOp' = [op |-> "settle", call |-> c]
    /\ UNCHANGED jsEngine
    /\ UNCHANGED <<selectedFile, previewUrl, objectUrls, filesPicked>>

CallSettles == \E c \in DOMAIN calls : \E settle \in Settlements : Settle(c, settle)

\* a reset that leaves the loading flag alone
handleReset_KeepsLoading ==
    LET memo == MemoPreviewUrl(Null, objectUrls) IN
    /\ selectedFile' = Null
    /\ treeData' = Null
    /\ error' = Null
    /\ objectUrls' = IF Truthy(previewUrl)
                     THEN [memo.objectUrls EXCEPT ![Val(previewUrl)].revoked = TRUE]
                     ELSE memo.objectUrls
    /\ previewUrl' = memo.previewUrl
    /\ lastOp' = [op |-> "reset", outstanding |-> OutstandingCalls]
    /\ UNCHANGED jsEngine
    /\ UNCHANGED <<calls, filesPicked, isLoading>>

\* a reset that aborts the calls in flight
handleReset_Aborts ==
    LET memo == MemoPreviewUrl(Null, objectUrls) IN
    /\ selectedFile' = Null
    /\ treeData' = Null
    /\ error' = Null
    /\ isLoading' = FALSE
    /\ objectUrls' = IF Truthy(previewUrl)
                     THEN [memo.objectUrls EXCEPT ![Val(previewUrl)].revoked = TRUE]
                     ELSE memo.objectUrls
    /\ previewUrl' = memo.previewUrl
    /\ calls' = [c \in DOMAIN calls |->
                    IF Outstanding(c) THEN [calls[c] EXCEPT !.pc = "aborted"] ELSE calls[c]]
    /\ lastOp' = [op |-> "reset", outstanding |-> OutstandingCalls]
    /\ UNCHANGED jsEngine
    /\ UNCHANGED filesPicked

\* click on "Start Over"
handleReset ==
    LET memo == MemoPreviewUrl(Null, objectUrls) IN
    /\ selectedFile' = Null
    /\ treeData' = Null
    /\ error' = Null
    /\ isLoading' = FALSE
    /\ objectUrls' = IF Truthy(previewUrl)
                     THEN [memo.objectUrls EXCEPT ![Val(previewUrl)].revoked = TRUE]
                     ELSE memo.objectUrls
    /\ previewUrl' = memo.previewUrl
    /\ lastOp' = [op |-> "reset", outstanding |-> OutstandingCalls]
    /\ UNCHANGED jsEngine
    /\ UNCHANGED <<calls, filesPicked>>

ClickReset ==
    /\ ResetShown
    /\ handleReset

Next ==
    \/ handleFileChange
    \/ ClickIdentify
    \/ FileRead
    \/ CallSettles
    \/ ClickReset

Spec == Init /\ [][Next]_vars

TypeOK ==
    /\ isLoading \in BOOLEAN
    /\ Len(selectedFile) <= 1 /\ Len(treeData) <= 1 /\ Len(error) <= 1
    /\ Len(calls) <= MaxCalls
    /\ filesPicked \in 0..MaxFiles

\* the session without the reset control, with every started file read and
\* every issued request eventually finishing
NextNoReset ==
    \/ handleFileChange
    \/ ClickIdentify
    \/ FileRead
    \/ CallSettles

LiveSpec ==
    Init /\ [][NextNoReset]_vars /\ WF_vars(FileRead) /\ WF_vars(CallSettles)

\* ------------------------------------------------- properties
Active == {k \in {"loading", "result", "error"} :
              \/ k = "loading" /\ isLoading
              \/ k = "result" /\ Truthy(treeData)
              \/ k = "error" /\ Truthy(error)}

\* C1: in every reachable state at most one of loading, result and error is
\* active.
C1_AtMostOneActive == Cardinality(Active) <= 1

\* C2: right after a file is selected, that file is the selected file and
\* both the result and the error are empty.
C2_SelectClears ==
    lastOp.op = "select" =>
        /\ selectedFile # Null /\ Val(selectedFile).id = lastOp.file
        /\ treeData = Null
        /\ error = Null

\* C3: at most one identification call is outstanding at any time, and the
\* UI is loading for as long as a call is outstanding.
C3_OneOutstandingCall ==
    /\ Cardinality(OutstandingCalls) <= 1
    /\ OutstandingCalls # {} => isLoading

\* C4: without reset, and with the file read and the remote call finishing,
\* a loading UI eventually stops loading and shows a result or an error.
C4_LoadingEnds == isLoading ~> (~isLoading /\ (treeData # Null \/ error # Null))

\* C5: when the file read of a call fails, identifyTree rejects with a
\* message and the UI is in the error state with that message.
C5_ReadFailureSurfaces ==
    lastOp.op = "read-failed" =>
        LET call == calls[lastOp.call] IN
        /\ call.completion # Null
        /\ Val(call.completion).kind = "throw"
        /\ error = Some(Val(call.completion).error.message)
        /\ ~isLoading

\* C6: right after reset the selected file, the result and the error are
\* empty, loading is false and the primary control is disabled.
C6_ResetClears ==
    lastOp.op = "reset" =>
        /\ selectedFile = Null
        /\ treeData = Null
        /\ error = Null
        /\ isLoading = FALSE
        /\ IdentifyDisabled

\* reset was pressed while a call was in flight
C6_Witness == lastOp.op = "reset" /\ lastOp.outstanding # {}

\* C7: the only preview handle created and not released is the one of the
\* currently selected file.
C7_PreviewReleased ==
    \A u \in DOMAIN objectUrls :
        ~objectUrls[u].revoked =>
            /\ previewUrl = Some(u)
            /\ selectedFile # Null /\ Val(selectedFile).id = objectUrls[u].file

\* C8: reset leaves the calls in flight as they are, and a call that settles
\* writes its result or its error message into the UI state, whether or not
\* a file is still selected.
C8_ResetDoesNotCancel ==
    /\ lastOp.op = "reset" =>
            \A c \in lastOp.outstanding : Outstanding(c)
    /\ lastOp.op = "settle" =>
            LET k == Val(calls[lastOp.call].completion) IN
            /\ ~isLoading
            /\ IF k.kind = "return" THEN treeData = Stored(k.value)
               ELSE error = Some(k.error.message)

\* a call settled after reset: a result or an error with no file selected
C8_Witness ==
    /\ lastOp.op = "settle"
    /\ selectedFile = Null
    /\ treeData # Null \/ error # Null

\* C9: a value thrown by the remote call or by the parsing makes identifyTree
\* reject: with the template followed by the message when it is an Error,
\* with the generic message otherwise; it never returns a result then.
C9_CaughtOnce ==
    \A c \in DOMAIN calls :
        (calls[c].pc = "settled" /\ calls[c].caught # Null) =>
            LET e == Val(calls[c].caught)
                k == Val(calls[c].completion)
            IN /\ k.kind = "throw"
               /\ k.error.instanceofError
               /\ k.error.message =
                     IF e.instanceofError THEN ErrorTemplate \o e.message
                     ELSE UnknownErrorMessage

\* the message of the SyntaxError that JSON.parse throws on TruncatedText
TruncatedTextMessage ==
    IF jsEngine = "V8 12"
    THEN "Expected double-quoted property name in JSON at position 20 (line 1 column 21)"
    ELSE "Expected double-quoted property name in JSON at position 20"

\* one call caught an Error with a message, another a value that is no Error
C9_Witness ==
    /\ \E c \in DOMAIN calls :
          /\ calls[c].caught # Null
          /\ Val(calls[c].caught).instanceofError
          /\ Val(calls[c].caught).message = TruncatedTextMessage
    /\ \E c \in DOMAIN calls :
          /\ calls[c].caught # Null
          /\ ~Val(calls[c].caught).instanceofError

RequiredFields == {"commonName", "scientificName", "description"}

\* a result record as the response schema declares it: an object with the
\* required fields, each a string
CompleteRecord(v) ==
    /\ v.type = "object"
    /\ \A f \in RequiredFields : f \in DOMAIN v.value /\ v.value[f].type = "string"

\* C10: an invocation issues no request before the file is read, at most one
\* in all, and none after a failure of the encoding, the request or the
\* parsing; an invocation whose encoding failed or whose request settled has
\* ended, either with a complete result record or with an error, never both.
C10_SingleShot ==
    \A c \in DOMAIN calls :
        /\ Len(calls[c].requests) <= 1
        /\ calls[c].pc \in {"reading", "hung"} => calls[c].requests = <<>>
        /\ calls[c].pc = "settled" => Len(calls[c].requests) = 1
        /\ calls[c].pc \in {"hung", "settled"} =>
              /\ calls[c].completion # Null
              /\ LET k == Val(calls[c].completion) IN
                 /\ k.kind = "return" =>
                       calls[c].caught = Null /\ CompleteRecord(k.value)
                 /\ k.kind = "throw" => calls[c].caught # Null

\* the part of C10 that concerns the record an invocation returns
C10_ReturnsComplete ==
    \A c \in DOMAIN calls :
        (calls[c].pc = "settled" /\ Val(calls[c].completion).kind = "return")
            => CompleteRecord(Val(calls[c].completion).value)

\* the part of C10 that concerns the requests, and the outcome of an
\* invocation whose request settled: returned or thrown, never both
C10_RequestsOnly ==
    \A c \in DOMAIN calls :
        /\ Len(calls[c].requests) <= 1
        /\ calls[c].pc \in {"reading", "hung"} => calls[c].requests = <<>>
        /\ calls[c].pc = "settled" =>
              /\ Len(calls[c].requests) = 1
              /\ Val(calls[c].completion).kind = "return" <=> calls[c].caught = Null

\* C11: the primary control is disabled exactly when no file is selected or
\* loading is true: a click starts a call only from a state with a file
\* selected and not loading, and in every such state a click is possible
\* (as long as the session's call budget lasts).
C11_DisabledExactly ==
    /\ [][Len(calls') > Len(calls) => (selectedFile # Null /\ ~isLoading)]_vars
    /\ []((selectedFile # Null /\ ~isLoading /\ Len(calls) < MaxCalls)
            => ENABLED ClickIdentify)
    /\ []((selectedFile = Null \/ isLoading) => ~ENABLED ClickIdentify)

\* the control was enabled, was clicked, and is now disabled by loading alone
C11_Witness == lastOp.op = "identify" /\ selectedFile # Null /\ isLoading

\* the records the well-formed response texts stand for
OakRecord ==
    Obj([commonName |-> Str("Oak"), scientificName |-> Str("Quercus robur"),
         description |-> Str("A large deciduous tree."),
         careTips |-> Arr(<<Str("Water weekly"), Str("Full sun")>>)])
ElmRecord ==
    Obj([commonName |-> Str("Elm"), scientificName |-> Str("Ulmus minor"),
         description |-> Str("A tall shade tree.")])

\* the settlement the call handled last received, when it is a response with
\* the given text
LastSettledWith(text) ==
    /\ lastOp.op = "settle"
    /\ calls[lastOp.call].settlement # Null
    /\ Val(calls[lastOp.call].settlement).kind = "resolve"
    /\ Val(calls[lastOp.call].settlement).text = Some(text)

\* C12: right after a call settles on a well-formed response, the UI is in
\* the result state: the stored result has the parsed values, the care tips
\* in the order of the response, loading is false and no error is set.
C12_SuccessStoresResult ==
    /\ LastSettledWith(OakText) =>
          treeData = Some(OakRecord) /\ error = Null /\ ~isLoading
    /\ LastSettledWith(ElmText) =>
          treeData = Some(ElmRecord) /\ error = Null /\ ~isLoading

\* the part of C12 that concerns the stored result alone
C12_ResultOnly ==
    /\ LastSettledWith(OakText) => treeData = Some(OakRecord) /\ ~isLoading
    /\ LastSettledWith(ElmText) => treeData = Some(ElmRecord) /\ ~isLoading

\* ------------------------------------------------- mocked client
\* the App with identifyTree replaced by a mock that settles as the test
\* decides: the ways a mocked client call ends
MockCompletions ==
    { Return(OakRecord), Throw(Err("network down")), Throw(Err("")),
      Throw(NonErr(Str("aborted"))), Throw(NonErr(Obj([message |-> Str("boom")]))),
      Throw(NonErr(JsNull)), Throw(NonErr(Undefined)) }

\* the mocked identifyTree promise of call c settles
MockSettle(c, completion) ==
    /\ calls[c].pc = "reading"
    /\ calls' = [calls EXCEPT ![c].pc = "settled", ![c].completion = Some(completion)]
    /\ handleIdentifyResume(completion)
    /\ lastOp' = [op |-> "settle", call |-> c]
    /\ UNCHANGED jsEngine
    /\ UNCHANGED <<selectedFile, previewUrl, objectUrls, filesPicked>>

MockCallSettles ==
    \E c \in DOMAIN calls : \E completion \in MockCompletions : MockSettle(c, completion)

MockNext ==
    \/ handleFileChange
    \/ ClickIdentify
    \/ MockCallSettles
    \/ ClickReset

MockSpec == Init /\ [][MockNext]_vars

\* the completion of the call handled last, when it is a rejection
LastRejected ==
    /\ lastOp.op = "settle"
    /\ Val(calls[lastOp.call].completion).kind = "throw"
LastRejection == Val(calls[lastOp.call].completion).error

\* the message a rejection carries, when it carries one
RejectionMessage(r) ==
    IF r.instanceofError THEN Some(r.message)
    ELSE IF /\ r.value.type = "object"
            /\ "message" \in DOMAIN r.value.value
            /\ r.value.value.message.type = "string"
    THEN Some(r.value.value.message.value)
    ELSE Null

\* what C13 says of the state right after a rejection
ErrorStoredFor(r) ==
    /\ ~isLoading
    /\ error # Null
    /\ Val(error) # ""
    /\ IF RejectionMessage(r) \notin {Null, Some("")}
       THEN error = RejectionMessage(r)
       ELSE error = Some(UnexpectedErrorMessage)

\* C13: right after the client call is rejected, loading is false and an
\* error is stored: the rejection's message when it carries a non-empty one,
\* the fixed text when the message is empty or missing; the stored error is
\* never the empty string.
C13_ErrorStored == LastRejected => ErrorStoredFor(LastRejection)

\* the part of C13 that concerns rejections with a value other than null
\* and undefined
C13_ValueRejections ==
    (LastRejected /\ (LastRejection.instanceofError \/ ~IsNullish(LastRejection.value)))
        => ErrorStoredFor(LastRejection)

\* C14: right after a call settles on a malformed JSON text, the UI is in the
\* error state: a non-empty message is stored, loading is false and no
\* result is stored.
C14_MalformedJson ==
    LastSettledWith(TruncatedText) =>
        /\ error # Null /\ Val(error) # ""
        /\ ~isLoading
        /\ treeData = Null

\* the part of C14 that concerns the stored error alone
C14_ErrorOnly ==
    LastSettledWith(TruncatedText) =>
        /\ error = Some(ErrorTemplate \o TruncatedTextMessage)
        /\ ~isLoading

\* the views the display region renders in the current state
ViewsShown ==
    {v \in {"prompt", "spinner", "error", "result"} :
        \/ v = "prompt" /\ ShowPrompt
        \/ v = "spinner" /\ ShowSpinner
        \/ v = "error" /\ ShowError
        \/ v = "result" /\ ShowResult}

\* C15: in every reachable state the display region shows exactly one of the
\* upload prompt, the loading indicator, the error banner and the result card.
C15_ExactlyOneView == Cardinality(ViewsShown) = 1

\* the two ways C15 fails, separately: never no view, never two views
C15_SomeView == ViewsShown # {}
C15_AtMostOneView == Cardinality(ViewsShown) <= 1

\* ------------------------------------------------- handler invoked directly
\* handleIdentify called whatever the button's disabled attribute says, as a
\* caller of the callback can, with identifyTree mocked
InvokeIdentify ==
    /\ Len(calls) < MaxCalls
    /\ handleIdentify

HandlerNext ==
    \/ handleFileChange
    \/ InvokeIdentify
    \/ MockCallSettles
    \/ ClickReset

HandlerSpec == Init /\ [][HandlerNext]_vars

\* C16: a handleIdentify step taken with a file selected sets loading, clears
\* the result and the error and starts exactly one call, for the file
\* selected at that moment; a step taken with no file selected starts no call
\* and changes nothing of the App's state.
C16_IdentifyEffect ==
    [][/\ (lastOp'.op \in {"identify", "identify-nofile"}) =>
              (lastOp'.op = "identify" <=> selectedFile # Null)
       /\ lastOp'.op = "identify" =>
              /\ isLoading' /\ treeData' = Null /\ error' = Null
              /\ Len(calls') = Len(calls) + 1
              /\ SubSeq(calls', 1, Len(calls)) = calls
              /\ calls'[Len(calls')].file = Val(selectedFile)
              /\ calls'[Len(calls')].pc = "reading"
              /\ UNCHANGED <<selectedFile, previewUrl, objectUrls>>
       /\ lastOp'.op = "identify-nofile" =>
              UNCHANGED <<selectedFile, treeData, isLoading, error, previewUrl,
                          objectUrls, calls>>
      ]_vars

\* the handler ran with no file selected, after a session that had started a
\* call and stored an error
C16_Witness ==
    /\ lastOp.op = "identify-nofile"
    /\ calls # <<>>
    /\ error # Null

\* the settled calls that were made for the currently selected file
CallsForSelectedFile ==
    {c \in DOMAIN calls :
        /\ selectedFile # Null
        /\ calls[c].pc = "settled"
        /\ calls[c].file.id = Val(selectedFile).id}

\* C17: a stored result is the result of a call made for the currently
\* selected file, and a stored error is the error of such a call.
C17_OutcomeOfSelectedFile ==
    /\ treeData # Null =>
          \E c \in CallsForSelectedFile :
              /\ Val(calls[c].completion).kind = "return"
              /\ Some(Val(calls[c].completion).value) = treeData
    /\ error # Null =>
          \E c \in CallsForSelectedFile :
              /\ Val(calls[c].completion).kind = "throw"
              /\ CaughtMessage(Val(calls[c].completion).error) = Return(Val(error))
====
